---- MODULE Spec2Model ----
(***************************************************************************)
(* Penalty ledger of the MovieReviews backend (backend/penalties) and its  *)
(* link to the directory of active users.                                  *)
(*                                                                         *)
(* Time is an integer number of clock ticks; timedelta(days=n) is          *)
(* n * TicksPerDay ticks.  An ISO timestamp string is modelled by the tick *)
(* count it encodes (isoformat / fromisoformat are inverse on the values   *)
(* the program produces).  Optional values are sequences of length 0 or 1. *)
(***************************************************************************)
EXTENDS Integers, Sequences, FiniteSets, TLC

VARIABLES
    penalties,  \* penalties.json: the list of penalty records, in file order
    users,      \* the active users: user_id -> the "penalties" list of the record
    now,        \* the value datetime.utcnow() returns
    nextId,     \* the next fresh penalty_id (uuid4 never repeats)
    last,       \* the last completed operation and what it answered
    reviews,    \* data/reviews/<movie_id>_reviews.json: the authors, in file order
    movies_reviewed, \* the active users: user_id -> the "movies_reviewed" list
    reports,         \* data/reports/reports.json in file order (stored), and the
                     \* number of reports created so far (made)
    corrupted,       \* the files whose content is not JSON: "penalties" for
                     \* penalties.json, a movie_id for the reviews of the movie
    issued_tokens,   \* the access tokens handed out, each with the claims it was made
                     \* from and the time it was made at
    revoked_tokens,  \* the revocation store (REVOKED_TOKENS_FILE)
    reset_tokens,    \* the reset-token store, in order of creation; a token is its
                     \* position in the store; "wins" counts the verifications
                     \* of the token that succeeded
    hashed_password, \* the users: user_id -> the "hashed_password" of the record
    user_status,     \* the users: user_id -> the "status" of the record, which is
                     \* the file the record is kept in (active or inactive)
    requests         \* the requests in progress, one per worker thread: what the
                     \* handler has read so far and where it stands

ledgerVars == <<penalties, users, nextId>>
reviewVars == <<reviews, movies_reviewed, reports, corrupted>>
authVars == <<issued_tokens, revoked_tokens>>
resetVars == <<reset_tokens, hashed_password, user_status, requests>>
otherVars == <<reviewVars, authVars, resetVars>>

vars == <<penalties, users, now, nextId, last, reviews, movies_reviewed, reports,
          corrupted,
          issued_tokens, revoked_tokens, reset_tokens, hashed_password, user_status,
          requests>>

(***************************************************************************)
(* Bounds of the model.                                                    *)
(***************************************************************************)
TicksPerDay == 1
MaxNow == 2
MaxPenalties == 2
MaxIssued == 1
MaxTokens == 2
AccessTTL == 1
MaxResetTokens == 2
MaxReports == 2
MaxSessions == 3
ResetTTL == 1

(***************************************************************************)
(* Optional[T]                                                             *)
(***************************************************************************)
None == << >>
Some(x) == <<x>>

(***************************************************************************)
(* Enumerations of penalties/schemas.py and the identifiers used as inputs *)
(***************************************************************************)
PenaltyType == {"review_ban", "report_ban", "posting_ban", "suspension", "warning"}
PenaltySeverity == {"minor", "moderate", "severe"}
PenaltyStatus == {"active", "resolved", "expired"}

ActiveIds == {"u1", "u2"}
UserIds == ActiveIds \cup {"u9"}
ModeratorIds == {"mod1"}
MovieIds == {"m1", "m2"}
Workers == {"w1", "w2"}

\* the user records of the active and inactive files, as far as login reads them
Accounts ==
    [u \in {"u1", "mod1", "adm1", "u3"} |->
        [user_id |-> u,
         role |-> CASE u = "adm1" -> "administrator"
                    [] u = "mod1" -> "moderator"
                    [] OTHER -> "member",
         status |-> IF u = "u3" THEN "inactive" ELSE "active"]]

Passwords == {"pw0", "pwA", "pwB"}
InitialPassword == "pw0"
Roles == {"administrator", "moderator", "member"}
NoteValues == {None, Some("lifted")}
DurationValues == {None, Some(0), Some(0 - 1), Some(1), Some(2)}
BlockedTypeSets == {{"review_ban", "posting_ban"}, {"report_ban", "posting_ban"}, {"warning"}}

(***************************************************************************)
(* Input sets of the ledger specification (Spec): a slice of the request   *)
(* space small enough to follow several penalties through their life.      *)
(***************************************************************************)
LedgerUsers == ActiveIds
LedgerTypes == {"review_ban", "warning"}
LedgerSeverities == {"minor"}
LedgerDurations == {None, Some(1)}
LedgerNotes == {Some("lifted")}
LedgerBlocked == {{"review_ban", "posting_ban"}, {"warning"}}

(***************************************************************************)
(* Sequence helpers                                                        *)
(***************************************************************************)
InSeq(x, s) == \E i \in DOMAIN s : s[i] = x

Range(s) == {s[i] : i \in DOMAIN s}

RECURSIVE RemoveFirst(_, _)
RemoveFirst(s, x) ==
    IF s = << >> THEN << >>
    ELSE IF Head(s) = x THEN Tail(s)
    ELSE <<Head(s)>> \o RemoveFirst(Tail(s), x)

(***************************************************************************)
(* penalties/schemas.py                                                    *)
(***************************************************************************)
\* has_expired with the comparison made inclusive
has_expired_inclusive(p, t) ==
    IF p.expires_at = None THEN FALSE
    ELSE t >= p.expires_at[1]

\* Penalty.has_expired, evaluated at clock reading t
has_expired(p, t) ==
    IF p.expires_at = None THEN FALSE
    ELSE t > p.expires_at[1]

\* Penalty.time_remaining, evaluated at clock reading t; the d/h/m text is
\* abstracted to the word "remaining"
time_remaining(p, t) ==
    IF p.expires_at = None THEN None
    ELSE IF p.expires_at[1] - t <= 0 THEN Some("Expired")
    ELSE Some("remaining")

\* number of days of the severity/type default
default_days(p_type, severity) ==
    CASE severity = "minor" -> 3
      [] severity = "moderate" -> 7
      [] severity = "severe" -> IF p_type = "suspension" THEN 30 ELSE 14
      [] OTHER -> 7

\* calculate_expiry without the branch for warnings
calculate_expiry_no_warning(p_type, severity, duration_days, t) ==
    IF duration_days # None /\ duration_days[1] # 0 /\ duration_days[1] > 0
    THEN Some(t + duration_days[1] * TicksPerDay)
    ELSE Some(t + default_days(p_type, severity) * TicksPerDay)

\* calculate_expiry, with t the value of its clock reading
calculate_expiry(p_type, severity, duration_days, t) ==
    IF duration_days # None /\ duration_days[1] # 0 /\ duration_days[1] > 0
    THEN Some(t + duration_days[1] * TicksPerDay)
    ELSE IF p_type = "warning" THEN None
    ELSE Some(t + default_days(p_type, severity) * TicksPerDay)

\* Penalty(**payload, issued_by=..., expires_at=...): penalty_id and
\* issued_at come from the default factories
Penalty(id, user_id, p_type, severity, issued_by, issued_at, expires_at) ==
    [penalty_id |-> id, user_id |-> user_id, type |-> p_type,
     severity |-> severity, issued_by |-> issued_by, issued_at |-> issued_at,
     expires_at |-> expires_at, status |-> "active",
     notes |-> None, resolved_by |-> None, resolved_at |-> None]

(***************************************************************************)
(* penalties/utils.py                                                      *)
(***************************************************************************)
\* _unlink_penalty_from_user
unlink_penalty_from_user(us, user_id, penalty_id) ==
    IF user_id \in DOMAIN us /\ InSeq(penalty_id, us[user_id])
    THEN [us EXCEPT ![user_id] = RemoveFirst(@, penalty_id)]
    ELSE us

\* the link step of add_penalty
link_penalty_to_user(us, user_id, penalty_id) ==
    IF user_id \in DOMAIN us
    THEN [us EXCEPT ![user_id] = Append(@, penalty_id)]
    ELSE us

\* a selection that ignores the owner
penalties_of_everyone(stored, user_id) == stored

\* get_penalties_for_user: the penalties of user_id as loaded from the file
penalties_of(stored, user_id) ==
    SelectSeq(stored, LAMBDA p : p.user_id = user_id)

\* get_penalties_for_user: the test of the loop
is_due(p, t) == p.status = "active" /\ has_expired(p, t)

\* get_penalties_for_user: identifiers the loop marks expired at reading t
due_ids(stored, user_id, t) ==
    {p.penalty_id : p \in {q \in Range(penalties_of(stored, user_id)) : is_due(q, t)}}

\* the update of all_penalties stopping after the first expired penalty
mark_expired_first_only(stored, ids) ==
    [i \in DOMAIN stored |->
        IF stored[i].penalty_id \in ids /\ \A other \in ids : stored[i].penalty_id <= other
        THEN [stored[i] EXCEPT !.status = "expired"]
        ELSE stored[i]]

\* get_penalties_for_user: the update of all_penalties
mark_expired(stored, ids) ==
    [i \in DOMAIN stored |->
        IF stored[i].penalty_id \in ids
        THEN [stored[i] EXCEPT !.status = "expired"]
        ELSE stored[i]]

\* get_penalties_for_user: the unlink calls of the loop, in list order
RECURSIVE unlink_due(_, _, _)
unlink_due(us, mine, t) ==
    IF mine = << >> THEN us
    ELSE unlink_due(IF is_due(Head(mine), t)
                    THEN unlink_penalty_from_user(us, Head(mine).user_id, Head(mine).penalty_id)
                    ELSE us,
                    Tail(mine), t)

\* get_penalties_for_user: the returned list
listed(stored, user_id, t) ==
    mark_expired(penalties_of(stored, user_id), due_ids(stored, user_id, t))

\* check_active_penalty without the status check
RECURSIVE first_block_any_status(_, _, _)
first_block_any_status(ps, blocked_types, t) ==
    IF ps = << >> THEN None
    ELSE IF Head(ps).type \in blocked_types
    THEN Some(<<"Action blocked due to active", Head(ps).type,
                IF time_remaining(Head(ps), t) = None THEN "Unknown duration"
                ELSE time_remaining(Head(ps), t)[1]>>)
    ELSE first_block_any_status(Tail(ps), blocked_types, t)

\* check_active_penalty: the message for the first active blocked penalty
RECURSIVE first_block(_, _, _)
first_block(ps, blocked_types, t) ==
    IF ps = << >> THEN None
    ELSE IF Head(ps).status = "active" /\ Head(ps).type \in blocked_types
    THEN Some(<<"Action blocked due to active", Head(ps).type,
                IF time_remaining(Head(ps), t) = None THEN "Unknown duration"
                ELSE time_remaining(Head(ps), t)[1]>>)
    ELSE first_block(Tail(ps), blocked_types, t)

\* the update without the resolver
resolve_record_no_resolver(p, moderator_id, notes, t) ==
    [p EXCEPT !.status = "resolved", !.notes = notes, !.resolved_at = Some(t)]

\* the update also ending the penalty at the time of resolution
resolve_record_ends_now(p, moderator_id, notes, t) ==
    [p EXCEPT !.status = "resolved", !.notes = notes,
              !.resolved_by = Some(moderator_id), !.resolved_at = Some(t),
              !.expires_at = Some(t)]

\* resolve_penalty: the update of the first record with the identifier
resolve_record(p, moderator_id, notes, t) ==
    [p EXCEPT !.status = "resolved", !.notes = notes,
              !.resolved_by = Some(moderator_id), !.resolved_at = Some(t)]

Known(stored, penalty_id) == \E i \in DOMAIN stored : stored[i].penalty_id = penalty_id

FirstIndex(stored, penalty_id) ==
    CHOOSE i \in DOMAIN stored :
        /\ stored[i].penalty_id = penalty_id
        /\ \A j \in DOMAIN stored : stored[j].penalty_id = penalty_id => i <= j

\* the list comprehension [p for p in data if p["penalty_id"] != penalty_id]
without(stored, penalty_id) ==
    SelectSeq(stored, LAMBDA p : p.penalty_id # penalty_id)

(***************************************************************************)
(* backend/authentication/security.py: passwords                           *)
(***************************************************************************)
hash_password(password) == <<"hash", password>>

verify_password(password, hashed) == hashed = hash_password(password)

\* a POST /auth/password/reset request that has not started
Idle == [pc |-> "idle"]

(***************************************************************************)
(* backend/authentication/security.py: access tokens.  A token is the      *)
(* signed encoding of its claims and of its issuance and expiry times;     *)
(* time is counted in units of the token lifetime.                         *)
(***************************************************************************)
ForgedTokens ==
    {[sig |-> "forged", sub |-> "adm1", role |-> "administrator", status |-> "active",
      iat |-> 0, exp |-> MaxNow]}

\* an encoding that drops the role of the claims
create_access_token_as_member(data, t) ==
    [sig |-> "valid", sub |-> data.sub, role |-> "member", status |-> data.status,
     iat |-> t, exp |-> t + AccessTTL]

create_access_token(data, t) ==
    [sig |-> "valid", sub |-> data.sub, role |-> data.role, status |-> data.status,
     iat |-> t, exp |-> t + AccessTTL]

TokenData(token) ==
    [user_id |-> token.sub, role |-> token.role, status |-> token.status]

Failure(kind) == [ok |-> FALSE, error |-> kind, claims |-> None]

Success(claims) == [ok |-> TRUE, error |-> "", claims |-> Some(claims)]

\* a verification that tests the expiry before the revocation
get_current_user_expiry_first(token, revoked, t) ==
    IF token.sig # "valid" THEN Failure("AuthInvalid")
    ELSE IF t > token.exp THEN Failure("AuthExpired")
    ELSE IF token \in revoked THEN Failure("AuthRevoked")
    ELSE Success(TokenData(token))

\* get_current_user: structure, then revocation, then expiry
get_current_user(token, revoked, t) ==
    IF token.sig # "valid" THEN Failure("AuthInvalid")
    ELSE IF token \in revoked THEN Failure("AuthRevoked")
    ELSE IF t > token.exp THEN Failure("AuthExpired")
    ELSE Success(TokenData(token))

\* a revocation that replaces the store by the one token
revoke_token_overwrite(revoked, token) == {token}

\* a revocation that is not stored
revoke_token_lost(revoked, token) == revoked

revoke_token(revoked, token) == revoked \cup {token}

\* the role comparison by rank in the hierarchy
RoleRank(role) ==
    CASE role = "guest" -> 0 [] role = "member" -> 1 [] role = "critic" -> 2
      [] role = "moderator" -> 3 [] role = "administrator" -> 4

role_allowed_by_rank(role, requiredRoles) ==
    \E r \in requiredRoles : RoleRank(role) >= RoleRank(r)

\* current_user.role not in [...]
role_allowed(role, requiredRoles) == role \in requiredRoles

\* the gate of a protected route
authorize(token, requiredRoles, revoked, t) ==
    LET v == get_current_user(token, revoked, t) IN
    IF ~v.ok THEN Failure("unauthorized")
    ELSE IF v.claims[1].status # "active" THEN Failure("forbidden")
    ELSE IF ~role_allowed(v.claims[1].role, requiredRoles) THEN Failure("forbidden")
    ELSE v

(***************************************************************************)
(* backend/authentication/security.py: reset tokens.  verify_reset_token   *)
(* reads the store and, when the token passes, invalidates it in a second  *)
(* access to the store.                                                    *)
(***************************************************************************)
create_reset_token(store, user_id, t) ==
    Append(store, [user_id |-> user_id, expires_at |-> t + ResetTTL,
                   used |-> FALSE, wins |-> 0])

\* the read without the expiry test
check_reset_token_no_expiry(store, token, t) ==
    IF token \notin DOMAIN store THEN Failure("ResetTokenInvalid")
    ELSE IF store[token].used THEN Failure("ResetTokenConsumed")
    ELSE Success(store[token].user_id)

\* verify_reset_token: the read
check_reset_token(store, token, t) ==
    IF token \notin DOMAIN store THEN Failure("ResetTokenInvalid")
    ELSE IF store[token].used THEN Failure("ResetTokenConsumed")
    ELSE IF t > store[token].expires_at THEN Failure("ResetTokenExpired")
    ELSE Success(store[token].user_id)

\* verify_reset_token: the invalidation
consume_reset_token(store, token) ==
    [store EXCEPT ![token].used = TRUE, ![token].wins = @ + 1]

\* a password update that overwrites every record
set_password_everyone(table, user_id, new_password) ==
    [u \in DOMAIN table |-> hash_password(new_password)]

\* user["hashed_password"] = security.hash_password(new_password), on the one
\* record whose user_id is the token's
set_password(table, user_id, new_password) ==
    [table EXCEPT ![user_id] = hash_password(new_password)]

\* next((u for u in users if u["email"] == email), None)
user_by_email(email) ==
    CASE email = "u1@mail" -> Some("u1")
      [] email = "u3@mail" -> Some("u3")
      [] OTHER -> None

\* the tokens a client can present
Presentable == {e.token : e \in issued_tokens} \cup ForgedTokens

Outcome(v) == IF v.ok THEN "ok" ELSE v.error

(***************************************************************************)
(* The record of the last completed operation: its arguments, whether the  *)
(* clock still shows the reading it ran at (fresh), the HTTP outcome and   *)
(* the returned value.  For a listing, payload is the set of identifiers   *)
(* the call wrote as expired (empty: the call saved nothing).              *)
(***************************************************************************)
Done(op, user, pid, payload, status, ret) ==
    [op |-> op, user |-> user, pid |-> pid, payload |-> payload,
     fresh |-> TRUE, status |-> status, ret |-> ret]

NoPayload == << >>

Denied(op) == Done(op, None, None, NoPayload, "forbidden", None)

Init ==
    /\ penalties = << >>
    /\ users = [u \in ActiveIds |-> << >>]
    /\ now = 0
    /\ nextId = 1
    /\ last = Done("start", None, None, NoPayload, "ok", None)
    /\ reviews = [m \in MovieIds |-> << >>]
    /\ movies_reviewed = [u \in ActiveIds |-> << >>]
    /\ reports = [made |-> 0, stored |-> << >>]
    /\ corrupted = {}
    /\ issued_tokens = {}
    /\ revoked_tokens = {}
    /\ reset_tokens = << >>
    /\ hashed_password = [u \in DOMAIN Accounts |-> hash_password(InitialPassword)]
    /\ user_status = [u \in DOMAIN Accounts |-> Accounts[u].status]
    /\ requests = [w \in Workers |-> Idle]

\* the clock advances between two requests
Tick ==
    /\ now < MaxNow
    /\ now' = now + 1
    /\ last' = [last EXCEPT !.fresh = FALSE]
    /\ UNCHANGED <<penalties, users, nextId>>

\* _load_penalties: json.load raises on a file that is not JSON, and the
\* request is answered 500 with nothing written
Unreadable == "penalties" \in corrupted

Raised(op) ==
    /\ last' = Done(op, None, None, NoPayload, "error", None)
    /\ UNCHANGED <<penalties, users, nextId, now>>

\* add_penalty
add_penalty(penalty) ==
    /\ penalties' = Append(penalties, penalty)
    /\ users' = link_penalty_to_user(users, penalty.user_id, penalty.penalty_id)

\* POST /penalties.  calculate_expiry reads the clock (now); the issued_at
\* default factory of Penalty reads it again, d ticks later.
create_penalty(by, Subjects, Types, Sevs, Durs, cap) ==
    IF Unreadable THEN Raised("issue") ELSE
    \E user_id \in Subjects, p_type \in Types,
       severity \in Sevs, duration_days \in Durs, d \in {0, 1} :
        /\ nextId <= cap
        /\ now + d <= MaxNow
        /\ LET expires_at == calculate_expiry(p_type, severity, duration_days, now)
               full_penalty == Penalty(nextId, user_id, p_type, severity, by,
                                       now + d, expires_at)
           IN /\ add_penalty(full_penalty)
              /\ last' = Done("issue", Some(user_id), Some(nextId),
                              <<user_id, p_type, severity, duration_days>>,
                              "ok", Some(full_penalty))
        /\ nextId' = nextId + 1
        /\ now' = now + d

issue_penalty(Subjects, Types, Sevs, Durs, cap) ==
    \E role \in Roles :
        IF role \notin {"administrator", "moderator"}
        THEN /\ last' = Denied("issue")
             /\ UNCHANGED <<penalties, users, now, nextId>>
        ELSE \E by \in ModeratorIds :
                create_penalty(by, Subjects, Types, Sevs, Durs, cap)

(***************************************************************************)
(* POST /penalties as the worker thread runs it: the route and add_penalty *)
(* up to the read of the ledger, the write of the ledger, the read of the  *)
(* users, the write of the users.  Other requests run between the steps.   *)
(***************************************************************************)
Step(op, r, pc) ==
    Done(op, Some(r.penalty.user_id), Some(r.penalty.penalty_id), <<pc>>, "pending", None)

issue_penalty_load(Subjects, Types, Sevs, Durs, cap) ==
    \E w \in Workers, role \in Roles :
        /\ requests[w] = Idle
        /\ IF role \notin {"administrator", "moderator"}
           THEN /\ last' = Denied("issue")
                /\ UNCHANGED <<nextId, requests>>
           ELSE IF Unreadable
           THEN /\ last' = Done("issue", None, None, NoPayload, "error", None)
                /\ UNCHANGED <<nextId, requests>>
           ELSE \E by \in ModeratorIds, user_id \in Subjects, p_type \in Types,
                   severity \in Sevs, duration_days \in Durs :
                /\ nextId <= cap
                /\ LET expires_at == calculate_expiry(p_type, severity, duration_days, now)
                       r == [pc |-> "loaded",
                             penalty |-> Penalty(nextId, user_id, p_type, severity, by,
                                                 now, expires_at),
                             data |-> penalties, users |-> users]
                   IN /\ requests' = [requests EXCEPT ![w] = r]
                      /\ last' = Step("issue", r, "loaded")
                /\ nextId' = nextId + 1
        /\ UNCHANGED <<penalties, users, now, reviewVars, authVars, reset_tokens,
                       hashed_password, user_status>>

\* data.append(penalty.dict()); _save_penalties(data)
add_penalty_save ==
    \E w \in Workers :
        /\ requests[w].pc = "loaded"
        /\ penalties' = Append(requests[w].data, requests[w].penalty)
        /\ requests' = [requests EXCEPT ![w].pc = "saved"]
        /\ last' = Step("issue", requests[w], "saved")
        /\ UNCHANGED <<users, nextId, now, reviewVars, authVars, reset_tokens,
                       hashed_password, user_status>>

\* users = user_utils.load_active_users()
add_penalty_load_users ==
    \E w \in Workers :
        /\ requests[w].pc = "saved"
        /\ requests' = [requests EXCEPT ![w].pc = "linking", ![w].users = users]
        /\ last' = Step("issue", requests[w], "linking")
        /\ UNCHANGED <<ledgerVars, now, reviewVars, authVars, reset_tokens,
                       hashed_password, user_status>>

\* the loop over users: the loaded users are saved with the identifier
\* appended when the subject is among them; the route returns the penalty
add_penalty_link ==
    \E w \in Workers :
        /\ requests[w].pc = "linking"
        /\ LET r == requests[w] IN
           /\ users' = IF r.penalty.user_id \in DOMAIN r.users
                        THEN link_penalty_to_user(r.users, r.penalty.user_id,
                                                  r.penalty.penalty_id)
                        ELSE users
           /\ last' = Done("issue", Some(r.penalty.user_id), Some(r.penalty.penalty_id),
                           <<"linked">>, "ok", Some(r.penalty))
        /\ requests' = [requests EXCEPT ![w] = Idle]
        /\ UNCHANGED <<penalties, nextId, now, reviewVars, authVars, reset_tokens,
                       hashed_password, user_status>>

\* get_penalties_for_user, reached from GET /penalties/me and
\* GET /penalties/{user_id}
get_penalties_for_user(user_id) ==
    /\ penalties' = mark_expired(penalties, due_ids(penalties, user_id, now))
    /\ users' = unlink_due(users, penalties_of(penalties, user_id), now)

list_penalties(Subjects) ==
    IF Unreadable THEN Raised("list") ELSE
    \E user_id \in Subjects :
        /\ get_penalties_for_user(user_id)
        /\ last' = Done("list", Some(user_id), None,
                        due_ids(penalties, user_id, now), "ok",
                        listed(penalties, user_id, now))
        /\ UNCHANGED <<now, nextId>>

\* check_active_penalty
check_active_penalty(Subjects, Blocked) ==
    IF Unreadable THEN Raised("check") ELSE
    \E user_id \in Subjects, blocked_types \in Blocked :
        /\ get_penalties_for_user(user_id)
        /\ last' = Done("check", Some(user_id), None, blocked_types, "ok",
                        first_block(listed(penalties, user_id, now), blocked_types, now))
        /\ UNCHANGED <<now, nextId>>

\* utils.resolve_penalty
resolve_penalty(penalty_id, moderator_id, notes) ==
    IF Known(penalties, penalty_id)
    THEN LET i == FirstIndex(penalties, penalty_id) IN
         /\ penalties' = [penalties EXCEPT ![i] = resolve_record(@, moderator_id, notes, now)]
         /\ users' = unlink_penalty_from_user(users, penalties[i].user_id, penalty_id)
    ELSE /\ penalties' = penalties
         /\ users' = users

\* the answer of PATCH /penalties/{penalty_id} once utils.resolve_penalty
\* has returned: always the success message
resolve_answer(stored, penalty_id) == "ok"

\* PATCH /penalties/{penalty_id}
route_resolve_penalty(Notes) ==
    \E role \in Roles :
        /\ IF role \notin {"administrator", "moderator"}
           THEN /\ last' = Denied("resolve")
                /\ UNCHANGED <<penalties, users>>
           ELSE IF Unreadable
           THEN /\ last' = Done("resolve", None, None, NoPayload, "error", None)
                /\ UNCHANGED <<penalties, users>>
           ELSE \E by \in ModeratorIds, penalty_id \in 1..MaxPenalties, notes \in Notes :
                /\ resolve_penalty(penalty_id, by, notes)
                /\ last' = Done("resolve", Some(by), Some(penalty_id), notes,
                                resolve_answer(penalties, penalty_id), None)
        /\ UNCHANGED <<now, nextId>>

\* DELETE /penalties/{penalty_id}: the handler filters and saves the ledger
\* itself and does not call utils.delete_penalty
route_delete_penalty ==
    \E role \in Roles :
        /\ IF role # "administrator"
           THEN /\ last' = Denied("delete")
                /\ UNCHANGED <<penalties, users>>
           ELSE IF Unreadable
           THEN /\ last' = Done("delete", None, None, NoPayload, "error", None)
                /\ UNCHANGED <<penalties, users>>
           ELSE \E penalty_id \in 1..MaxPenalties :
                IF Len(without(penalties, penalty_id)) = Len(penalties)
                THEN /\ last' = Done("delete", None, Some(penalty_id), NoPayload,
                                     "not_found", None)
                     /\ UNCHANGED <<penalties, users>>
                ELSE /\ penalties' = without(penalties, penalty_id)
                     /\ users' = users
                     /\ last' = Done("delete", None, Some(penalty_id), NoPayload,
                                     "ok", None)
        /\ UNCHANGED <<now, nextId>>

\* utils.delete_penalty
delete_penalty ==
    IF Unreadable THEN Raised("utils_delete") ELSE
    \E penalty_id \in 1..MaxPenalties :
        /\ penalties' = without(penalties, penalty_id)
        /\ users' = IF Known(penalties, penalty_id)
                    THEN unlink_penalty_from_user(
                             users, penalties[FirstIndex(penalties, penalty_id)].user_id,
                             penalty_id)
                    ELSE users
        /\ last' = Done("utils_delete", None, Some(penalty_id), NoPayload, "ok", None)
        /\ UNCHANGED <<now, nextId>>

\* load_reviews: a file that is not JSON is reset to [] and read as []
load_reviews(movie_id) ==
    IF movie_id \in corrupted THEN << >> ELSE reviews[movie_id]

\* add_review without the one-review-per-user test
add_review_unchecked(Movies, Authors) ==
    \E movie_id \in Movies, user_id \in Authors :
        /\ reviews' = [reviews EXCEPT ![movie_id] = Append(load_reviews(movie_id), user_id)]
        /\ corrupted' = corrupted \ {movie_id}
        /\ movies_reviewed' =
               IF user_id \in DOMAIN movies_reviewed
               THEN [movies_reviewed EXCEPT ![user_id] =
                        IF InSeq(movie_id, @) THEN @ ELSE Append(@, movie_id)]
               ELSE movies_reviewed
        /\ last' = Done("add_review", Some(user_id), None, <<movie_id>>,
                        "ok", Some(user_id))
        /\ UNCHANGED <<ledgerVars, now, reports>>

\* POST /reviews/{movie_id}: the route and utils.add_review.  A review is
\* represented by its author.
add_review(Movies, Authors) ==
    \E movie_id \in Movies, user_id \in Authors :
        /\ IF InSeq(user_id, load_reviews(movie_id))
           THEN /\ last' = Done("add_review", Some(user_id), None, <<movie_id>>,
                                "bad_request", None)
                /\ UNCHANGED otherVars
           ELSE /\ reviews' = [reviews EXCEPT ![movie_id] =
                                  Append(load_reviews(movie_id), user_id)]
                /\ corrupted' = corrupted \ {movie_id}
                /\ movies_reviewed' =
                       IF user_id \in DOMAIN movies_reviewed
                       THEN [movies_reviewed EXCEPT ![user_id] =
                                IF InSeq(movie_id, @) THEN @ ELSE Append(@, movie_id)]
                       ELSE movies_reviewed
                /\ last' = Done("add_review", Some(user_id), None, <<movie_id>>,
                                "ok", Some(user_id))
                /\ UNCHANGED reports
        /\ UNCHANGED <<ledgerVars, now>>

\* the answer of a request: who asked, with which role, about what
Asked(op, current_user, subject, status) ==
    Done(op, Some(current_user.user_id), None, <<current_user.role, subject>>, status, None)

\* PATCH /reviews/{movie_id}/{review_id}; the review is named by its author
edit_review(Movies, Callers) ==
    \E movie_id \in Movies, author \in ActiveIds, current_user \in Callers :
        /\ last' = Asked("edit_review", current_user, author,
                         IF ~InSeq(author, load_reviews(movie_id)) THEN "not_found"
                         ELSE IF author # current_user.user_id /\ current_user.role # "admin"
                         THEN "forbidden"
                         ELSE "ok")
        /\ reviews' = [reviews EXCEPT ![movie_id] = load_reviews(movie_id)]
        /\ corrupted' = corrupted \ {movie_id}
        /\ UNCHANGED <<ledgerVars, now, movies_reviewed, reports>>

\* DELETE /reviews/{movie_id}/{review_id}
delete_review(Movies, Callers) ==
    \E movie_id \in Movies, author \in ActiveIds, current_user \in Callers :
        /\ IF ~InSeq(author, load_reviews(movie_id))
           THEN /\ last' = Asked("delete_review", current_user, author, "not_found")
                /\ reviews' = [reviews EXCEPT ![movie_id] = load_reviews(movie_id)]
           ELSE IF author # current_user.user_id /\ current_user.role # "admin"
           THEN /\ last' = Asked("delete_review", current_user, author, "forbidden")
                /\ UNCHANGED reviews
           ELSE /\ reviews' = [reviews EXCEPT ![movie_id] =
                                  SelectSeq(@, LAMBDA a : a # author)]
                /\ last' = Asked("delete_review", current_user, author, "ok")
        /\ corrupted' = corrupted \ {movie_id}
        /\ UNCHANGED <<ledgerVars, now, movies_reviewed, reports>>

(***************************************************************************)
(* backend/reports/router.py and utils.py                                  *)
(***************************************************************************)
HasReport(report_id) == \E i \in DOMAIN reports.stored : reports.stored[i].id = report_id

\* POST /reports
submit_report(Callers) ==
    \E current_user \in Callers :
        /\ IF current_user.role \notin {"member", "critic"}
           THEN /\ last' = Asked("submit_report", current_user, 0, "forbidden")
                /\ UNCHANGED reports
           ELSE /\ reports.made < MaxReports
                /\ reports' = [made |-> reports.made + 1,
                               stored |-> Append(reports.stored,
                                                 [id |-> reports.made + 1,
                                                  reporter_id |-> current_user.user_id,
                                                  status |-> "pending"])]
                /\ last' = Asked("submit_report", current_user, reports.made + 1, "ok")
        /\ UNCHANGED <<ledgerVars, now, reviews, movies_reviewed, corrupted>>

\* GET /reports
get_all_reports(Callers) ==
    \E current_user \in Callers :
        /\ last' = Asked("get_all_reports", current_user, 0,
                         IF current_user.role \notin {"moderator", "admin"}
                         THEN "forbidden" ELSE "ok")
        /\ UNCHANGED <<ledgerVars, now, reviewVars>>

\* GET /reports/{report_id}
get_report(Callers) ==
    \E current_user \in Callers, report_id \in 1..MaxReports :
        /\ last' = Asked("get_report", current_user, report_id,
                         IF current_user.role \notin {"moderator", "admin"} THEN "forbidden"
                         ELSE IF ~HasReport(report_id) THEN "not_found"
                         ELSE "ok")
        /\ UNCHANGED <<ledgerVars, now, reviewVars>>

\* PATCH /reports/{report_id}
update_report(Callers, Statuses) ==
    \E current_user \in Callers, report_id \in 1..MaxReports, status \in Statuses :
        /\ IF current_user.role \notin {"moderator", "admin"}
           THEN /\ last' = Asked("update_report", current_user, report_id, "forbidden")
                /\ UNCHANGED reports
           ELSE IF ~HasReport(report_id)
           THEN /\ last' = Asked("update_report", current_user, report_id, "not_found")
                /\ UNCHANGED reports
           ELSE /\ reports' = [reports EXCEPT !.stored =
                                  [i \in DOMAIN @ |->
                                      IF @[i].id = report_id
                                      THEN [@[i] EXCEPT !.status = status]
                                      ELSE @[i]]]
                /\ last' = Asked("update_report", current_user, report_id, "ok")
        /\ UNCHANGED <<ledgerVars, now, reviews, movies_reviewed, corrupted>>

\* DELETE /reports/{report_id}
delete_report(Callers) ==
    \E current_user \in Callers, report_id \in 1..MaxReports :
        /\ IF current_user.role # "admin"
           THEN /\ last' = Asked("delete_report", current_user, report_id, "forbidden")
                /\ UNCHANGED reports
           ELSE IF ~HasReport(report_id)
           THEN /\ last' = Asked("delete_report", current_user, report_id, "not_found")
                /\ UNCHANGED reports
           ELSE /\ reports' = [reports EXCEPT !.stored =
                                  SelectSeq(@, LAMBDA r : r.id # report_id)]
                /\ last' = Asked("delete_report", current_user, report_id, "ok")
        /\ UNCHANGED <<ledgerVars, now, reviews, movies_reviewed, corrupted>>

(***************************************************************************)
(* backend/authentication/router.py: sessions                              *)
(***************************************************************************)
hand_out(data, cap) ==
    /\ Cardinality(issued_tokens) < cap
    /\ issued_tokens' = issued_tokens \cup
           {[token |-> create_access_token(data, now), claims |-> data, at |-> now]}

\* POST /auth/login
login(Usernames, Pwds, cap) ==
    \E username \in Usernames, password \in Pwds :
        LET user == [Accounts[username] EXCEPT !.status = user_status[username]] IN
        /\ IF ~verify_password(password, hashed_password[username])
           THEN /\ last' = Done("login", Some(username), None, <<password>>,
                                "unauthorized", None)
                /\ UNCHANGED issued_tokens
           ELSE IF user.status # "active"
           THEN /\ last' = Done("login", Some(username), None, <<password>>,
                                "forbidden", None)
                /\ UNCHANGED issued_tokens
           ELSE LET data == [sub |-> user.user_id, role |-> user.role,
                             status |-> user.status]
                IN /\ hand_out(data, cap)
                   /\ last' = Done("login", Some(username), None, <<password>>, "ok",
                                   Some(create_access_token(data, now)))
        /\ UNCHANGED <<ledgerVars, now, reviewVars, revoked_tokens, resetVars>>

\* security.create_access_token called with claims of any status
issue(ClaimValues) ==
    \E data \in ClaimValues :
        /\ hand_out(data, MaxTokens)
        /\ last' = Done("create_access_token", Some(data.sub), None, NoPayload, "ok",
                        Some(create_access_token(data, now)))
        /\ UNCHANGED <<ledgerVars, now, reviewVars, revoked_tokens, resetVars>>

\* a logout that answers without revoking
logout_without_revoke ==
    \E token \in Presentable :
        /\ last' = Done("logout", None, None, <<token>>, "ok", None)
        /\ UNCHANGED <<ledgerVars, now, reviewVars, authVars, resetVars>>

\* POST /auth/logout: the bearer string is revoked as it is, unverified
logout ==
    \E token \in Presentable :
        /\ revoked_tokens' = revoke_token(revoked_tokens, token)
        /\ last' = Done("logout", None, None, <<token>>, "ok", None)
        /\ UNCHANGED <<ledgerVars, now, reviewVars, issued_tokens, resetVars>>

\* POST /auth/refresh
refresh_token(cap) ==
    \E token \in Presentable :
        LET v == get_current_user(token, revoked_tokens, now) IN
        /\ IF ~v.ok
           THEN /\ last' = Done("refresh", None, None, <<token>>, "unauthorized", Some(v))
                /\ UNCHANGED issued_tokens
           ELSE LET data == [sub |-> v.claims[1].user_id, role |-> v.claims[1].role,
                             status |-> v.claims[1].status]
                IN /\ hand_out(data, cap)
                   /\ last' = Done("refresh", None, None, <<token>>, "ok",
                                   Some(create_access_token(data, now)))
        /\ UNCHANGED <<ledgerVars, now, reviewVars, revoked_tokens, resetVars>>

\* GET /auth/whoami
whoami ==
    \E token \in Presentable :
        LET v == get_current_user(token, revoked_tokens, now) IN
        /\ last' = Done("whoami", None, None, <<token>>,
                        IF v.ok THEN "ok" ELSE "unauthorized", Some(v))
        /\ UNCHANGED <<ledgerVars, now, reviewVars, authVars, resetVars>>

\* a read-only protected route (GET /penalties and the like)
protected_read(RoleSets) ==
    \E token \in Presentable, requiredRoles \in RoleSets :
        LET a == authorize(token, requiredRoles, revoked_tokens, now) IN
        /\ last' = Done("authorize", None, None, <<token, requiredRoles>>,
                        Outcome(a), a.claims)
        /\ UNCHANGED <<ledgerVars, now, reviewVars, authVars, resetVars>>

\* POST /penalties behind its gate
issue_penalty_with(Subjects, Types, Sevs, Durs, cap) ==
    \E token \in Presentable :
        LET a == authorize(token, {"administrator", "moderator"}, revoked_tokens, now) IN
        /\ IF ~a.ok
           THEN /\ last' = Done("issue", None, None, <<token>>, a.error, None)
                /\ UNCHANGED <<penalties, users, now, nextId>>
           ELSE create_penalty(a.claims[1].user_id, Subjects, Types, Sevs, Durs, cap)
        /\ UNCHANGED <<reviewVars, authVars, resetVars>>

(***************************************************************************)
(* backend/authentication/router.py: password reset                        *)
(***************************************************************************)
\* POST /auth/password/request
request_password_reset(Emails) ==
    \E email \in Emails :
        LET user == user_by_email(email) IN
        /\ IF user = None
           THEN /\ last' = Done("request_reset", None, None, <<email>>, "not_found", None)
                /\ UNCHANGED reset_tokens
           ELSE /\ Len(reset_tokens) < MaxResetTokens
                /\ reset_tokens' = create_reset_token(reset_tokens, user[1], now)
                /\ last' = Done("request_reset", user, Some(Len(reset_tokens) + 1),
                                <<email>>, "ok", None)
        /\ UNCHANGED <<ledgerVars, now, reviewVars, authVars, hashed_password,
                       user_status, requests>>

\* POST /auth/password/reset up to the read of verify_reset_token: a token
\* that does not pass is answered 400 at once
reset_password_read(NewPasswords) ==
    \E w \in Workers, token \in 1..MaxResetTokens, new_password \in NewPasswords :
        LET v == check_reset_token(reset_tokens, token, now) IN
        /\ requests[w] = Idle
        /\ IF ~v.ok
           THEN /\ last' = Done("reset_password", None, Some(token),
                                <<new_password, now>>, "bad_request", Some(v))
                /\ UNCHANGED requests
           ELSE /\ requests' = [requests EXCEPT ![w] =
                                   [pc |-> "checked", token |-> token,
                                    new_password |-> new_password,
                                    user_id |-> v.claims[1], at |-> now]]
                /\ last' = Done("reset_password_read", None, Some(token),
                                <<new_password, now>>, "pending", Some(v))
        /\ UNCHANGED <<ledgerVars, now, reviewVars, authVars, reset_tokens,
                       hashed_password, user_status>>

\* POST /auth/password/reset from the invalidation on
reset_password_write ==
    \E w \in Workers :
        /\ requests[w].pc = "checked"
        /\ LET r == requests[w] IN
           /\ reset_tokens' = consume_reset_token(reset_tokens, r.token)
           /\ IF r.user_id \in DOMAIN hashed_password
              THEN /\ hashed_password' = set_password(hashed_password, r.user_id,
                                                      r.new_password)
                   /\ last' = Done("reset_password", Some(r.user_id), Some(r.token),
                                   <<r.new_password, r.at>>, "ok",
                                   Some(Success(r.user_id)))
              ELSE /\ UNCHANGED hashed_password
                   /\ last' = Done("reset_password", Some(r.user_id), Some(r.token),
                                   <<r.new_password, r.at>>, "not_found",
                                   Some(Success(r.user_id)))
        /\ requests' = [requests EXCEPT ![w] = Idle]
        /\ UNCHANGED <<ledgerVars, now, reviewVars, authVars, user_status>>

(***************************************************************************)
(* backend/users/router.py: PATCH /users/{user_id}/status                  *)
(***************************************************************************)
update_user_status(Subjects, Statuses) ==
    \E token \in Presentable, user_id \in Subjects, status \in Statuses :
        LET a == authorize(token, {"administrator"}, revoked_tokens, now) IN
        /\ IF ~a.ok
           THEN /\ last' = Done("update_user_status", Some(user_id), None,
                                <<token, status>>, a.error, None)
                /\ UNCHANGED user_status
           ELSE IF user_id \notin DOMAIN user_status
           THEN /\ last' = Done("update_user_status", Some(user_id), None,
                                <<token, status>>, "not_found", None)
                /\ UNCHANGED user_status
           ELSE /\ user_status' = [user_status EXCEPT ![user_id] = status]
                /\ last' = Done("update_user_status", Some(user_id), None,
                                <<token, status>>, "ok", None)
        /\ UNCHANGED <<ledgerVars, now, reviewVars, authVars, reset_tokens,
                       hashed_password, requests>>

\* the server process is stopped and started again: the stores are files
Restart ==
    /\ last' = Done("restart", None, None, NoPayload, "ok", None)
    /\ requests' = [w \in Workers |-> Idle]
    /\ UNCHANGED <<ledgerVars, now, reviewVars, authVars, reset_tokens, hashed_password,
                   user_status>>

(***************************************************************************)
(* Spec: the ledger followed over several penalties, on a slice of the     *)
(* request space.  SpecIssue: one penalty, every request, every subject.   *)
(***************************************************************************)
Next ==
    \/ Tick /\ UNCHANGED otherVars
    \/ issue_penalty(LedgerUsers, LedgerTypes, LedgerSeverities, LedgerDurations,
                     MaxPenalties) /\ UNCHANGED otherVars
    \/ list_penalties(LedgerUsers) /\ UNCHANGED otherVars
    \/ check_active_penalty(LedgerUsers, LedgerBlocked) /\ UNCHANGED otherVars
    \/ route_resolve_penalty(LedgerNotes) /\ UNCHANGED otherVars
    \/ route_delete_penalty /\ UNCHANGED otherVars
    \/ delete_penalty /\ UNCHANGED otherVars

Spec == Init /\ [][Next]_vars

NextIssue ==
    \/ Tick /\ UNCHANGED otherVars
    \/ issue_penalty(UserIds, PenaltyType, PenaltySeverity, DurationValues, MaxIssued) /\ UNCHANGED otherVars
    \/ list_penalties(UserIds) /\ UNCHANGED otherVars
    \/ check_active_penalty(UserIds, BlockedTypeSets) /\ UNCHANGED otherVars
    \/ route_resolve_penalty(NoteValues) /\ UNCHANGED otherVars
    \/ route_delete_penalty /\ UNCHANGED otherVars
    \/ delete_penalty /\ UNCHANGED otherVars

SpecIssue == Init /\ [][NextIssue]_vars

(***************************************************************************)
(* SpecReview: reviews posted while bans are issued, checked and resolved. *)
(***************************************************************************)
PostingBans == {"review_ban", "posting_ban"}
ReviewTypes == {"review_ban", "posting_ban", "warning"}
ReviewSeverities == {"minor"}
ReviewDurations == {None, Some(1)}

NextReview ==
    \/ Tick /\ UNCHANGED otherVars
    \/ issue_penalty(ActiveIds, ReviewTypes, ReviewSeverities, ReviewDurations,
                     MaxIssued) /\ UNCHANGED otherVars
    \/ check_active_penalty(ActiveIds, {PostingBans}) /\ UNCHANGED otherVars
    \/ route_resolve_penalty(LedgerNotes) /\ UNCHANGED otherVars
    \/ add_review(MovieIds, ActiveIds) /\ UNCHANGED <<authVars, resetVars>>

SpecReview == Init /\ [][NextReview]_vars

(***************************************************************************)
(* SpecGates: reviews and reports written, edited and deleted by members,  *)
(* a moderator and an administrator.                                       *)
(***************************************************************************)
Callers ==
    {[user_id |-> Accounts[u].user_id, role |-> Accounts[u].role] :
        u \in {"u1", "mod1", "adm1"}} \cup {[user_id |-> "u2", role |-> "member"]}
ReportStatuses == {"resolved", "dismissed"}

NextGates ==
    \/ add_review({"m1"}, ActiveIds) /\ UNCHANGED <<authVars, resetVars>>
    \/ edit_review({"m1"}, Callers) /\ UNCHANGED <<authVars, resetVars>>
    \/ delete_review({"m1"}, Callers) /\ UNCHANGED <<authVars, resetVars>>
    \/ submit_report(Callers) /\ UNCHANGED <<authVars, resetVars>>
    \/ get_all_reports(Callers) /\ UNCHANGED <<authVars, resetVars>>
    \/ get_report(Callers) /\ UNCHANGED <<authVars, resetVars>>
    \/ update_report(Callers, ReportStatuses) /\ UNCHANGED <<authVars, resetVars>>
    \/ delete_report(Callers) /\ UNCHANGED <<authVars, resetVars>>

SpecGates == Init /\ [][NextGates]_vars

(***************************************************************************)
(* SpecStore: the penalty ledger and the reviews of a movie while the      *)
(* files behind them are damaged from outside the program.                 *)
(***************************************************************************)
StoreFiles == {"penalties", "m1"}

\* the content of a file is overwritten by something that is not JSON
Corrupt(Files) ==
    \E file \in Files :
        /\ file \notin corrupted
        /\ corrupted' = corrupted \cup {file}
        /\ last' = Done("corrupt", None, None, <<file>>, "ok", None)
        /\ UNCHANGED <<ledgerVars, now, reviews, movies_reviewed, reports>>

NextStore ==
    \/ Corrupt(StoreFiles) /\ UNCHANGED <<authVars, resetVars>>
    \/ issue_penalty(ActiveIds, ReviewTypes, ReviewSeverities, ReviewDurations,
                     MaxIssued) /\ UNCHANGED otherVars
    \/ list_penalties(ActiveIds) /\ UNCHANGED otherVars
    \/ check_active_penalty(ActiveIds, {PostingBans}) /\ UNCHANGED otherVars
    \/ route_resolve_penalty(LedgerNotes) /\ UNCHANGED otherVars
    \/ route_delete_penalty /\ UNCHANGED otherVars
    \/ add_review({"m1"}, ActiveIds) /\ UNCHANGED <<authVars, resetVars>>

SpecStore == Init /\ [][NextStore]_vars

(***************************************************************************)
(* SpecRace: two worker threads issue penalties step by step while         *)
(* penalties are listed and resolved.                                      *)
(***************************************************************************)
RaceSubjects == {"u1"}
RaceTypes == {"posting_ban"}

NextRace ==
    \/ issue_penalty_load(RaceSubjects, RaceTypes, ReviewSeverities, {None}, MaxPenalties)
    \/ add_penalty_save
    \/ add_penalty_load_users
    \/ add_penalty_link
    \/ list_penalties(RaceSubjects) /\ UNCHANGED otherVars
    \/ route_resolve_penalty(LedgerNotes) /\ UNCHANGED otherVars

SpecRace == Init /\ [][NextRace]_vars

(***************************************************************************)
(* SpecAuth: sessions.  Tokens are handed out by login, refresh and a      *)
(* direct call of create_access_token, presented to whoami and to gated    *)
(* routes, and revoked by logout.                                          *)
(***************************************************************************)
DirectClaims == {[sub |-> "u3", role |-> "member", status |-> "inactive"]}
GateRoleSets == {{"administrator"}, {"administrator", "moderator"}, {"member", "critic"}}

NextAuth ==
    \/ Tick /\ UNCHANGED otherVars
    \/ login(DOMAIN Accounts, {InitialPassword, "pwA"}, MaxTokens)
    \/ issue(DirectClaims)
    \/ logout
    \/ refresh_token(MaxTokens)
    \/ whoami
    \/ protected_read(GateRoleSets)
    \/ issue_penalty_with({"u1"}, {"warning"}, {"minor"}, {None}, MaxIssued)
    \/ Restart

SpecAuth == Init /\ [][NextAuth]_vars

(***************************************************************************)
(* SpecReset: password resets, with up to two reset requests in progress   *)
(* at once.  Time is counted in units of the reset-token lifetime.         *)
(***************************************************************************)
ResetEmails == {"u1@mail", "u3@mail", "nobody@mail"}
NewPasswords == {"pwA", "pwB"}

NextReset ==
    \/ Tick /\ UNCHANGED otherVars
    \/ request_password_reset(ResetEmails)
    \/ reset_password_read(NewPasswords)
    \/ reset_password_write
    \/ Restart

SpecReset == Init /\ [][NextReset]_vars

(***************************************************************************)
(* SpecAccount: sessions while an administrator activates and deactivates  *)
(* accounts.                                                               *)
(***************************************************************************)
AccountNames == {"u1", "adm1"}
AccountSubjects == {"u1", "nobody"}
UserStatus == {"active", "inactive"}

NextAccount ==
    \/ Tick /\ UNCHANGED otherVars
    \/ login(AccountNames, {InitialPassword}, MaxSessions)
    \/ logout
    \/ refresh_token(MaxSessions)
    \/ whoami
    \/ update_user_status(AccountSubjects, UserStatus)

SpecAccount == Init /\ [][NextAccount]_vars

(***************************************************************************)
(* SpecCredential: sessions and password resets of an active and of an     *)
(* inactive user.                                                          *)
(***************************************************************************)
CredentialNames == {"u1", "u3"}
CredentialEmails == {"u1@mail", "u3@mail"}

NextCredential ==
    \/ Tick /\ UNCHANGED otherVars
    \/ login(CredentialNames, {InitialPassword, "pwA"}, MaxTokens)
    \/ logout
    \/ refresh_token(MaxTokens)
    \/ request_password_reset(CredentialEmails)
    \/ reset_password_read({"pwA"})
    \/ reset_password_write

SpecCredential == Init /\ [][NextCredential]_vars

(***************************************************************************)
(* Vocabulary of the properties                                            *)
(***************************************************************************)
Linked(us, user_id, penalty_id) ==
    user_id \in DOMAIN us /\ InSeq(penalty_id, us[user_id])

PastExpiry(p, t) == p.expires_at # None /\ p.expires_at[1] < t

Returned(ret, penalty_id, status) ==
    \E k \in DOMAIN ret : ret[k].penalty_id = penalty_id /\ ret[k].status = status

\* the step just taken is a completed call of op
Ran(op) == last'.op = op /\ last'.fresh /\ last'.status # "forbidden"

(***************************************************************************)
(* C1: after any sequence of completed penalty operations, a penalty       *)
(* identifier is in its subject's active-penalty list if and only if the   *)
(* ledger holds a penalty with that identifier and status active.          *)
(***************************************************************************)
C1_LinkedIffActive ==
    /\ \A i \in DOMAIN penalties :
          penalties[i].status = "active"
              <=> Linked(users, penalties[i].user_id, penalties[i].penalty_id)
    /\ \A u \in DOMAIN users : \A k \in DOMAIN users[u] :
          \E i \in DOMAIN penalties :
              /\ penalties[i].penalty_id = users[u][k]
              /\ penalties[i].user_id = u
              /\ penalties[i].status = "active"

(***************************************************************************)
(* C2: resolve with an identifier absent from the ledger fails with        *)
(* PenaltyNotFound (not success) and leaves the ledger and the user        *)
(* directory unchanged.                                                    *)
(***************************************************************************)
C2_ResolveUnknownFails ==
    [][(Ran("resolve") /\ ~Known(penalties, last'.pid[1]))
          => /\ last'.status = "not_found"
             /\ penalties' = penalties
             /\ users' = users]_vars

(***************************************************************************)
(* C3: delete of a penalty present in the ledger, whatever its status,     *)
(* removes the record and leaves no user record referencing its            *)
(* identifier.                                                             *)
(***************************************************************************)
C3_DeleteUnlinks ==
    [][((Ran("delete") \/ Ran("utils_delete")) /\ Known(penalties, last'.pid[1]))
          => /\ ~Known(penalties', last'.pid[1])
             /\ \A u \in DOMAIN users' : ~InSeq(last'.pid[1], users'[u])]_vars

(***************************************************************************)
(* C4: one call listForSubject(s) returns every active penalty of s whose  *)
(* expiry is strictly before the current time with status expired, stores  *)
(* that status in the ledger and removes the identifier from s's list;     *)
(* the active penalties of s with no expiry, or whose expiry has not       *)
(* passed, stay active.                                                    *)
(***************************************************************************)
C4_ListExpiresDue ==
    [][Ran("list") =>
          /\ Len(penalties') = Len(penalties)
          /\ \A i \in DOMAIN penalties :
                (penalties[i].user_id = last'.user[1] /\ penalties[i].status = "active")
                    => IF PastExpiry(penalties[i], now)
                       THEN /\ penalties'[i].status = "expired"
                            /\ Returned(last'.ret, penalties[i].penalty_id, "expired")
                            /\ ~Linked(users', penalties[i].user_id, penalties[i].penalty_id)
                       ELSE /\ penalties'[i].status = "active"
                            /\ Returned(last'.ret, penalties[i].penalty_id, "active")]_vars

\* a listing that flipped one penalty of the subject and kept another active
C4_Witness ==
    /\ last.op = "list" /\ last.fresh
    /\ last.payload # {}
    /\ \E k \in DOMAIN last.ret :
          /\ last.ret[k].status = "expired"
          /\ last.ret[k].penalty_id \in last.payload
          /\ ~Linked(users, last.user[1], last.ret[k].penalty_id)
    /\ \E k \in DOMAIN last.ret : last.ret[k].status = "active"

(***************************************************************************)
(* C5 as stated: of two listForSubject(s) calls with no other operation    *)
(* in between, the second writes nothing and returns what the first        *)
(* returned.                                                               *)
(***************************************************************************)
C5_SecondListWritesNothing ==
    [][(last.op = "list" /\ Ran("list") /\ last'.user = last.user)
          => /\ penalties' = penalties
             /\ users' = users
             /\ last'.payload = {}
             /\ last'.ret = last.ret]_vars

(***************************************************************************)
(* C5 amended: of two listForSubject(s) calls with no other operation in   *)
(* between and made at the same clock reading, the second writes nothing   *)
(* and returns what the first returned.                                    *)
(***************************************************************************)
C5_SecondListSameClock ==
    [][(last.op = "list" /\ last.fresh /\ Ran("list") /\ last'.user = last.user)
          => /\ penalties' = penalties
             /\ users' = users
             /\ last'.payload = {}
             /\ last'.ret = last.ret]_vars

\* the state after a listing that expired a penalty: a second listing of the
\* same subject is enabled here
C5_Witness ==
    /\ last.op = "list" /\ last.fresh
    /\ last.payload # {}
    /\ \E k \in DOMAIN last.ret : last.ret[k].status = "expired"

(***************************************************************************)
(* C6: the only status changes are active -> expired and active ->         *)
(* resolved; a resolved or expired penalty never takes another status.     *)
(***************************************************************************)
C6_StatusMonotonic ==
    [][\A i \in DOMAIN penalties : \A j \in DOMAIN penalties' :
          penalties'[j].penalty_id = penalties[i].penalty_id
              => \/ penalties'[j].status = penalties[i].status
                 \/ /\ penalties[i].status = "active"
                    /\ penalties'[j].status \in {"expired", "resolved"}]_vars

(***************************************************************************)
(* Vocabulary of the expiry rule                                           *)
(***************************************************************************)
PositiveOverride(duration_days) == duration_days # None /\ duration_days[1] > 0

RuleDays(p_type, severity) ==
    IF severity = "minor" THEN 3
    ELSE IF severity = "moderate" THEN 7
    ELSE IF p_type = "suspension" THEN 30
    ELSE 14

\* the request of the last issue and the penalty it returned
IssuedOk == last.op = "issue" /\ last.status = "ok"
ReqType == last.payload[2]
ReqSeverity == last.payload[3]
ReqDuration == last.payload[4]
IssuedPenalty == last.ret[1]

StoredAsReturned ==
    \A i \in DOMAIN penalties :
        penalties[i].penalty_id = IssuedPenalty.penalty_id
            => /\ penalties[i].expires_at = IssuedPenalty.expires_at
               /\ penalties[i].issued_at = IssuedPenalty.issued_at

C8_ExpiryIsIssuedPlusDays ==
    (IssuedOk /\ ~PositiveOverride(ReqDuration) /\ ReqType # "warning")
        => /\ IssuedPenalty.expires_at
                 = Some(IssuedPenalty.issued_at
                            + RuleDays(ReqType, ReqSeverity) * TicksPerDay)
           /\ StoredAsReturned

(***************************************************************************)
(* C9: with overrideDays > 0 the expiry is issued-at + overrideDays days   *)
(* for every type and severity; an absent, zero or negative overrideDays   *)
(* is ignored and the type/severity rule decides.                          *)
(***************************************************************************)
C9_OverrideWins ==
    IssuedOk
        => /\ IssuedPenalty.expires_at
                 = IF PositiveOverride(ReqDuration)
                   THEN Some(IssuedPenalty.issued_at + ReqDuration[1] * TicksPerDay)
                   ELSE IF ReqType = "warning" THEN None
                   ELSE Some(IssuedPenalty.issued_at
                                 + RuleDays(ReqType, ReqSeverity) * TicksPerDay)
           /\ StoredAsReturned

(***************************************************************************)
(* C10: checkActiveRestriction returns a non-empty message if and only if, *)
(* once lazy expiry is applied at the current time, the subject has an     *)
(* active penalty whose type is blocked; otherwise it returns none.        *)
(***************************************************************************)
C10_CheckMatchesActive ==
    (last.op = "check" /\ last.fresh)
        => IF \E i \in DOMAIN penalties :
                  /\ penalties[i].user_id = last.user[1]
                  /\ penalties[i].type \in last.payload
                  /\ penalties[i].status = "active"
                  /\ ~PastExpiry(penalties[i], now)
           THEN last.ret # None /\ Len(last.ret[1]) > 0
           ELSE last.ret = None

\* a check that answered with a message while an expired penalty of a
\* blocked type of the same subject was passed over
C10_Witness ==
    /\ last.op = "check" /\ last.fresh
    /\ last.ret # None
    /\ \E i, j \in DOMAIN penalties :
          /\ i < j
          /\ penalties[i].user_id = last.user[1]
          /\ penalties[j].user_id = last.user[1]
          /\ penalties[i].type \in last.payload
          /\ penalties[j].type \in last.payload
          /\ penalties[i].status \in {"expired", "resolved"}
          /\ penalties[j].status = "active"

(***************************************************************************)
(* C16: resolve of a penalty present in the ledger sets its status to      *)
(* resolved, records the resolver, the notes and the resolution time on    *)
(* it and removes its identifier from the subject's list; every other      *)
(* penalty and every other subject's list is unchanged.                    *)
(***************************************************************************)
C16_ResolveKnown ==
    [][(Ran("resolve") /\ Known(penalties, last'.pid[1])) =>
          LET i == FirstIndex(penalties, last'.pid[1])
              p == penalties[i]
          IN /\ Len(penalties') = Len(penalties)
             /\ penalties'[i] = [p EXCEPT !.status = "resolved",
                                          !.resolved_by = last'.user,
                                          !.notes = last'.payload,
                                          !.resolved_at = Some(now)]
             /\ \A j \in DOMAIN penalties : j # i => penalties'[j] = penalties[j]
             /\ \A u \in DOMAIN users :
                   users'[u] = IF u = p.user_id
                               THEN SelectSeq(users[u], LAMBDA x : x # p.penalty_id)
                               ELSE users[u]]_vars

\* a resolved penalty with its resolution data, unlinked, next to another
\* penalty of the same subject that is still active and linked
C16_Witness ==
    /\ last.op = "resolve" /\ last.fresh /\ last.status = "ok"
    /\ \E i, j \in DOMAIN penalties :
          /\ penalties[i].penalty_id = last.pid[1]
          /\ penalties[i].status = "resolved"
          /\ penalties[i].resolved_by = last.user
          /\ penalties[i].resolved_at = Some(now)
          /\ ~Linked(users, penalties[i].user_id, penalties[i].penalty_id)
          /\ j # i
          /\ penalties[j].user_id = penalties[i].user_id
          /\ penalties[j].status = "active"
          /\ Linked(users, penalties[j].user_id, penalties[j].penalty_id)

(***************************************************************************)
(* C17: delete with an identifier absent from the ledger fails with        *)
(* PenaltyNotFound and leaves the ledger and the user directory unchanged, *)
(* on every code path that implements delete.                              *)
(***************************************************************************)
C17_DeleteUnknownFails ==
    [][((Ran("delete") \/ Ran("utils_delete")) /\ ~Known(penalties, last'.pid[1]))
          => /\ last'.status = "not_found"
             /\ penalties' = penalties
             /\ users' = users]_vars

(***************************************************************************)
(* C19: the expiry and the issued-at time of an existing penalty never     *)
(* change, whatever operation runs.                                        *)
(***************************************************************************)
C19_ExpiryFrozen ==
    [][\A i \in DOMAIN penalties : \A j \in DOMAIN penalties' :
          penalties'[j].penalty_id = penalties[i].penalty_id
              => /\ penalties'[j].expires_at = penalties[i].expires_at
                 /\ penalties'[j].issued_at = penalties[i].issued_at]_vars

\* one penalty lazily expired and another resolved, after time has passed
C19_Witness ==
    /\ now > 0
    /\ \E i, j \in DOMAIN penalties :
          /\ penalties[i].status = "expired"
          /\ penalties[j].status = "resolved"
          /\ penalties[j].expires_at # None
          /\ penalties[j].resolved_at # Some(penalties[j].expires_at[1])

(***************************************************************************)
(* C18: a subject for whom check_active_penalty reports an active          *)
(* review_ban or posting_ban cannot add a review: the add-review request   *)
(* is rejected and stores nothing.                                         *)
(***************************************************************************)
C18_BannedCannotReview ==
    [][(Ran("add_review")
          /\ first_block(listed(penalties, last'.user[1], now), PostingBans, now) # None)
          => /\ last'.status # "ok"
             /\ reviews' = reviews
             /\ movies_reviewed' = movies_reviewed]_vars

(***************************************************************************)
(* Vocabulary of the session properties                                    *)
(***************************************************************************)
SameClaims(token_data, data) ==
    /\ token_data.user_id = data.sub
    /\ token_data.role = data.role
    /\ token_data.status = data.status

Unexpired(e) == now <= e.at + AccessTTL

(***************************************************************************)
(* C11: once a session token has been revoked (logout revokes the token    *)
(* it is given), every later verification of it fails with AuthRevoked     *)
(* while the token has not reached its expiry; no step, a restart          *)
(* included, removes an entry from the revocation store.                   *)
(***************************************************************************)
C11_RevokedStaysRevoked ==
    [][/\ revoked_tokens \subseteq revoked_tokens'
       /\ (last'.op = "logout" /\ last'.fresh) => last'.payload[1] \in revoked_tokens'
       /\ \A e \in issued_tokens :
             (e.token \in revoked_tokens /\ Unexpired(e))
                 => /\ get_current_user(e.token, revoked_tokens', now')
                          = Failure("AuthRevoked")
                    /\ (last'.op \in {"whoami", "refresh"} /\ last'.fresh
                           /\ last'.payload[1] = e.token)
                          => /\ last'.status = "unauthorized"
                             /\ last'.ret = Some(Failure("AuthRevoked"))]_vars

\* whoami refused with AuthRevoked for a token revoked earlier and not yet
\* expired, one lifetime after it was made
C11_Witness ==
    /\ last.op = "whoami" /\ last.fresh
    /\ last.ret = Some(Failure("AuthRevoked"))
    /\ \E e \in issued_tokens :
          /\ e.token = last.payload[1]
          /\ e.token \in revoked_tokens
          /\ now = e.at + AccessTTL

VerificationRead ==
    /\ last'.op \in {"reset_password", "reset_password_read"}
    /\ last'.fresh
    /\ last'.status \in {"bad_request", "pending"}

PastTTL(token) == token \in DOMAIN reset_tokens /\ now > reset_tokens[token].expires_at

DueFor(p, user_id) ==
    p.user_id = user_id /\ p.status = "active" /\ PastExpiry(p, now)

C30_ListFrame ==
    [][Ran("list") =>
          LET s == last'.user[1] IN
          /\ Len(penalties') = Len(penalties)
          /\ \A i \in DOMAIN penalties :
                penalties'[i] = IF DueFor(penalties[i], s)
                                THEN [penalties[i] EXCEPT !.status = "expired"]
                                ELSE penalties[i]
          /\ \A u \in DOMAIN users :
                users'[u] =
                   IF u = s
                   THEN SelectSeq(users[u],
                           LAMBDA x : ~\E i \in DOMAIN penalties :
                                          /\ penalties[i].penalty_id = x
                                          /\ DueFor(penalties[i], s))
                   ELSE users[u]
          /\ nextId' = nextId
          /\ UNCHANGED otherVars]_vars

\* a listing that flipped a penalty of its subject while another subject's
\* penalty, also past its expiry, stayed active and linked
C30_Witness ==
    /\ last.op = "list" /\ last.fresh /\ last.payload # {}
    /\ \E i \in DOMAIN penalties :
          /\ penalties[i].user_id # last.user[1]
          /\ penalties[i].status = "active"
          /\ PastExpiry(penalties[i], now)
          /\ Linked(users, penalties[i].user_id, penalties[i].penalty_id)

(***************************************************************************)
(* C23: a movie never holds two reviews by the same user: add_review by a  *)
(* user who already has a review for the movie fails and leaves the        *)
(* stored reviews and the user's movies_reviewed list unchanged.           *)
(***************************************************************************)
NoDuplicates(seq) == \A i, j \in DOMAIN seq : seq[i] = seq[j] => i = j

C23_OneReviewPerUser ==
    [][/\ \A m \in DOMAIN reviews : NoDuplicates(reviews'[m])
       /\ (last'.op = "add_review" /\ last'.fresh
              /\ InSeq(last'.user[1], reviews[last'.payload[1]]))
             => /\ last'.status = "bad_request"
                /\ reviews' = reviews
                /\ movies_reviewed' = movies_reviewed]_vars

\* a second review of the same movie by the same user was refused, another
\* user's review of that movie being stored as well
C23_Witness ==
    /\ last.op = "add_review" /\ last.fresh /\ last.status = "bad_request"
    /\ InSeq(last.user[1], reviews[last.payload[1]])
    /\ Len(reviews[last.payload[1]]) = 2
    /\ movies_reviewed[last.user[1]] = <<last.payload[1]>>

C22_AdminPassesGates ==
    /\ (last.op \in {"edit_review", "delete_review", "get_all_reports",
                      "get_report", "update_report", "delete_report"}
           /\ last.payload[1] = "administrator")
          => last.status # "forbidden"
    /\ (last.op \in {"delete_review", "get_all_reports", "get_report", "update_report"}
           /\ last.payload[1] = "moderator")
          => last.status # "forbidden"

(***************************************************************************)
(* C29: a session token is handed out only to a subject whose status in    *)
(* the user directory is active at that time: a login or a refresh that    *)
(* answers with a token does so for a subject the directory holds active.  *)
(***************************************************************************)
C29_IssuedToActiveOnly ==
    [][(last'.op \in {"login", "refresh"} /\ last'.fresh /\ last'.status = "ok"
          /\ issued_tokens' # issued_tokens)
         => user_status[last'.ret[1].sub] = "active"]_vars

(***************************************************************************)
(* C25: the validity of a session token only decreases: a token handed out *)
(* stays as it was made, and once its verification fails as expired or     *)
(* revoked it fails so after every later step (logins, refreshes, logouts  *)
(* and password resets of the same subject included).                      *)
(***************************************************************************)
Lapsed(token, revoked, t) ==
    get_current_user(token, revoked, t).error \in {"AuthExpired", "AuthRevoked"}

C25_ValidityOnlyDecreases ==
    [][\A e \in issued_tokens :
          /\ e \in issued_tokens'
          /\ Lapsed(e.token, revoked_tokens, now)
                => Lapsed(e.token, revoked_tokens', now')]_vars

\* u1, holding a revoked token, has reset the password and logged in with
\* the new one: the new token verifies, the old one still does not
C25_Witness ==
    /\ last.op = "login" /\ last.status = "ok" /\ last.user = Some("u1")
    /\ last.payload = <<"pwA">>
    /\ get_current_user(last.ret[1], revoked_tokens, now).ok
    /\ \E e \in issued_tokens :
          /\ e.claims.sub = "u1" /\ e.token # last.ret[1]
          /\ get_current_user(e.token, revoked_tokens, now) = Failure("AuthRevoked")

(***************************************************************************)
(* C21: a password reset that succeeds for subject S changes the stored    *)
(* credential of S only (the set of users, the other credentials and every *)
(* user's status are as before), leaves the new password as the credential *)
(* of S, and a login of S with the stored password is answered with a      *)
(* token when S is active and refused as Forbidden when S is inactive.     *)
(***************************************************************************)
ResetFrame ==
    (last'.op = "reset_password" /\ last'.fresh /\ last'.status = "ok")
       => LET S == last'.user[1] IN
          /\ DOMAIN hashed_password' = DOMAIN hashed_password
          /\ \A u \in DOMAIN hashed_password :
                u # S => hashed_password'[u] = hashed_password[u]
          /\ verify_password(last'.payload[1], hashed_password'[S])
          /\ user_status' = user_status
          /\ UNCHANGED <<ledgerVars, reviewVars, authVars, now>>

LoginWithStoredPassword ==
    /\ last'.op = "login" /\ last'.fresh
    /\ last'.payload[1] = "pwA"
    /\ verify_password(last'.payload[1], hashed_password[last'.user[1]])

C21_ResetChangesOnlySubject ==
    [][/\ ResetFrame
       /\ LoginWithStoredPassword
             => IF user_status[last'.user[1]] = "active"
                THEN last'.status = "ok" /\ last'.ret # None
                ELSE last'.status = "forbidden" /\ issued_tokens' = issued_tokens]_vars

\* the claim as stated: the login succeeds whatever the status of S
C21_LoginAfterResetSucceeds ==
    [][/\ ResetFrame
       /\ LoginWithStoredPassword => last'.status = "ok"]_vars

\* u1 has reset the password and logged in with the new one, while the
\* other users' credentials are the initial ones
C21_Witness ==
    /\ last.op = "login" /\ last.status = "ok" /\ last.user = Some("u1")
    /\ last.payload = <<"pwA">>
    /\ hashed_password["u1"] = hash_password("pwA")
    /\ \A u \in DOMAIN hashed_password \ {"u1"} :
          hashed_password[u] = hash_password(InitialPassword)
    /\ \E i \in DOMAIN reset_tokens : reset_tokens[i].user_id = "u1" /\ reset_tokens[i].used

(***************************************************************************)
(* C27: a damaged backing file is read as an empty collection, never as a  *)
(* fatal error: no penalty operation (list, check, issue, resolve, delete) *)
(* and no review operation is answered with an error of the server.        *)
(***************************************************************************)
C27_CorruptedReadAsEmpty == last.status # "error"

(***************************************************************************)
(* C26: issue is one unit.  No listing that runs between the steps of an   *)
(* issue sees a penalty of the subject active in the ledger while its      *)
(* identifier is missing from the subject's list, and when an issue has    *)
(* completed the identifier is in the list of the subject it named.        *)
(***************************************************************************)
C26_IssueIsOneUnit ==
    [][/\ (last'.op = "list" /\ last'.fresh /\ last'.status = "ok")
             => \A i \in DOMAIN penalties' :
                   (penalties'[i].user_id = last'.user[1]
                      /\ penalties'[i].status = "active")
                   => Linked(users', last'.user[1], penalties'[i].penalty_id)
       /\ (last'.op = "issue" /\ last'.fresh /\ last'.status = "ok")
             => Linked(users', last'.user[1], last'.pid[1])]_vars

(***************************************************************************)
(* C28: no update of the ledger is lost.  A penalty that an issue has      *)
(* written to the ledger is in the ledger afterwards (nothing deletes      *)
(* here), and a penalty that is resolved stays resolved.                   *)
(***************************************************************************)
C28_NoLostUpdate ==
    [][/\ \A id \in 1..(nextId - 1) :
             Known(penalties, id) => Known(penalties', id)
       /\ \A i \in DOMAIN penalties :
             penalties[i].status = "resolved"
                => \A j \in DOMAIN penalties' :
                      penalties'[j].penalty_id = penalties[i].penalty_id
                         => penalties'[j].status = "resolved"]_vars

====
